---- MODULE Spec2Model ----
(***************************************************************************)
(* Top-k evaluation of a latent-factor recommender: precision_at_k and the *)
(* score functions it calls (notebook                                      *)
(* Lesson_04_01_Recommender_Systems_Case_Study).                           *)
(*                                                                         *)
(* Arrays are functions over 0..n-1 (numpy indexing), dataframes are sets  *)
(* of (user_id, item_id) rows.  The double a / float(b) of two integers is  *)
(* the record [num, den, err]: with t the least exponent that gives the    *)
(* quotient a 53-bit significand, the double is (a * 2^t + err) /          *)
(* (|b| * 2^t), signed as b.  The quotients of recall and Average          *)
(* Precision, which only the text defines, are exact records [num, den].   *)
(***************************************************************************)
EXTENDS Integers, Sequences, FiniteSets, TLC

\* ------------------------------------------------------------------ bounds
no_users == 1          \* users of the ratings; user ids range over 0..no_users
no_factors == 1        \* width of an embedding vector
MaxItems == 2          \* no_items ranges over 0..MaxItems
MaxK == 2              \* k ranges up to MaxK
MaxRows == 2           \* rows of train_ratings plus rows of test_ratings
MaxRatings == 2        \* rows of the ratings file
MaxOriginalId == 3     \* user and item ids of the ratings file range over 1..MaxOriginalId
ScenarioItems == 4     \* no_items ranges over 0..ScenarioItems in the worked scenarios
LargeK == 49           \* k ranges over 1..LargeK where the float division is followed

UserIds == 0..no_users
ItemIds == 0..(MaxItems - 1)
Rows == UserIds \X ItemIds
UserWeights == {-1, 1}
ItemWeights == {0, 1}

\* Scores of the worked scenarios, and the weight vector that yields score x
\* against the user vector ScoreVector(1, nf)
ScenarioScores == {0, 1, 5, 10}
ScoreVector(x, nf) == [f \in 1..nf |-> IF f = 1 THEN x ELSE 0]

\* - math.inf: below every score, equal to itself, its negation above every score
NegInf == -1000

VARIABLES
    ratings,                            \* the dataframe read from ratings.dat: a sequence
                                        \* of rows, empty once it has been split
    counts,                             \* <<>>, or no_users and no_ratings of line 136
    no_items, k,                        \* arguments
    train_ratings, test_ratings,        \* dataframes: sets of <<user_id, item_id>>
    pred_func,                          \* "predict_from_latent" | "predict_from_pop"
    returns_owned,                      \* pred_func hands out the array it keeps
    user_matrix, item_matrix,           \* weights of the two Embedding layers
    pop_scores,                         \* the array predict_from_pop keeps
    pc,                                 \* "loop" | "returned" | "raised", "map_loop" |
                                        \* "map_returned" inside map_at_k, "loaded" |
                                        \* "counted" | "reindexed" in the pre-processing
    pos,                                \* groups of test_ratings handled so far
    precisions,                         \* the list being built
    maps,                               \* the list map_at_k builds
    handled,                            \* user_id of each pass of the loop, in order
    locals,                             \* <<>>, or the loop body's locals after its latest pass
    err,                                \* the exception that left precision_at_k
    rerun,                              \* this is the second call on the same inputs
    prev_precisions,                    \* what the first call returned
    tie_order                           \* key array |-> the order np.argsort returned for it

notebook == <<ratings, counts>>
args == <<no_items, k, pred_func, returns_owned>>
frames == <<train_ratings, test_ratings>>
weights == <<user_matrix, item_matrix>>
vars == <<notebook, args, frames, weights, pop_scores, pc, pos, precisions, maps, handled, locals,
          err, rerun, prev_precisions, tie_order>>

\* ----------------------------------------------------------------- helpers
Min(a, b) == IF a <= b THEN a ELSE b
Max(a, b) == IF a >= b THEN a ELSE b
Range(s) == {s[i] : i \in DOMAIN s}

RECURSIVE SumOver(_, _)
SumOver(f, S) ==
    IF S = {} THEN 0
    ELSE LET x == CHOOSE y \in S : TRUE IN f[x] + SumOver(f, S \ {x})

RECURSIVE Fact(_)
Fact(n) == IF n <= 1 THEN 1 ELSE n * Fact(n - 1)

\* np.arange(no_items, dtype=np.int32): empty for no_items <= 0
Arange(n) == 0..(n - 1)

\* ------------------------------------------------------ create_shallow_model
\* tf.keras.layers.Embedding(n + 1, no_factors): rows 0..n, one vector each
EmbeddingRows(n) == 0..n

\* Weight vectors the checks draw from: the first factor varies, the others are 1
UserVectors(nf) == {v \in [1..nf -> UserWeights \cup {1}] :
                        v[1] \in UserWeights /\ \A f \in 2..nf : v[f] = 1}
ItemVectors(nf) == {v \in [1..nf -> ItemWeights \cup {1}] :
                        v[1] \in ItemWeights /\ \A f \in 2..nf : v[f] = 1}
UnreadUserVector(nf) == [f \in 1..nf |-> 1]
UnreadItemVector(nf) == [f \in 1..nf |-> 1]

\* ------------------------------------------------------------ score functions
\* np.dot of two vectors of the same length
DotProduct(u, v) == SumOver([f \in DOMAIN u |-> u[f] * v[f]], DOMAIN u)

\* get_weights()[0][uid] / [pids]: a row index outside the table raises IndexError
LatentRaises(uid, pids) ==
    \/ uid \notin DOMAIN user_matrix
    \/ \E i \in pids : i \notin DOMAIN item_matrix

\* each candidate scored against its own row, the user's row not read
predict_from_item_norm(uid, pids) ==
    [i \in pids |-> DotProduct(item_matrix[i], item_matrix[i])]

\* predict_from_latent(model, uid, pids): a fresh array, one score per candidate
predict_from_latent(uid, pids) ==
    [i \in pids |-> DotProduct(user_matrix[uid], item_matrix[i])]

\* position i holds the number of training ratings made by user i
RatingsOfUser(train, n) ==
    [i \in Arange(n) |-> Cardinality({r \in train : r[1] = i})]

\* predict_from_pop: position i holds the number of training ratings of item i
PopularityCounts(train, n) ==
    [i \in Arange(n) |-> Cardinality({r \in train : r[2] = i})]

\* pred_func(model, user_id, pid_array, train_ratings)
PredFunc(uid, pids) ==
    IF pred_func = "predict_from_latent" THEN predict_from_latent(uid, pids)
    ELSE pop_scores

\* ------------------------------------------------------------ precision_at_k
\* test_ratings.groupby('user_id'): the distinct user ids, ascending
RECURSIVE SortedKeys(_)
SortedKeys(S) ==
    IF S = {} THEN <<>>
    ELSE LET m == CHOOSE x \in S : \A y \in S : x <= y
         IN <<m>> \o SortedKeys(S \ {m})

\* groupby(..., sort=False) over rows met in descending order
RECURSIVE SortedKeysDescending(_)
SortedKeysDescending(S) ==
    IF S = {} THEN <<>>
    ELSE LET m == CHOOSE x \in S : \A y \in S : x >= y
         IN <<m>> \o SortedKeysDescending(S \ {m})

GroupKeysDescending(test) == SortedKeysDescending({r[1] : r \in test})

\* a loop over every user of the ratings instead of the groups of test_ratings
GroupKeysAllUsers(test) == SortedKeys({r[1] : r \in test \cup train_ratings})

\* a loop over the rows of test_ratings instead of its groups: one key per row
RECURSIVE RowKeys(_)
RowKeys(test) ==
    IF test = {} THEN <<>>
    ELSE LET r == CHOOSE x \in test :
                      \A y \in test : x[1] < y[1] \/ (x[1] = y[1] /\ x[2] <= y[2])
         IN <<r[1]>> \o RowKeys(test \ {r})

GroupKeys(test) == SortedKeys({r[1] : r \in test})

\* train_ratings['item_id'].values, the rows of every user
TrainPidsAllUsers(train, user_id) == {r[2] : r \in train}

\* train_ratings[train_ratings['user_id'] == user_id]['item_id'].values
TrainPids(train, user_id) == {r[2] : r \in {x \in train : x[1] = user_id}}

\* set(user_test_rating['item_id'].values)
TestPids(test, user_id) == {r[2] : r \in {x \in test : x[1] = user_id}}

\* predictions[train_pids] = - math.inf raises IndexError on an index out of bounds
MaskRaises(predictions, train_pids) ==
    \E i \in train_pids : i \notin DOMAIN predictions

\* only the training items without a test rating are masked
MaskUntested(predictions, train_pids) ==
    [i \in DOMAIN predictions |->
        IF i \in train_pids /\ \A r \in test_ratings : r[2] # i
        THEN NegInf ELSE predictions[i]]

\* the scores as they are, nothing masked
MaskNone(predictions, train_pids) == predictions

\* predictions[train_pids] = - math.inf
Mask(predictions, train_pids) ==
    [i \in DOMAIN predictions |->
        IF i \in train_pids THEN NegInf ELSE predictions[i]]

\* predictions, not negated: the sort puts the lowest score first
NoNegate(a) == a

\* -predictions
Negate(a) == [i \in DOMAIN a |-> 0 - a[i]]

\* every ordering of the indices, the keys not looked at
AnyOrders(keys) ==
    LET n == Cardinality(DOMAIN keys)
    IN {p \in [1..n -> DOMAIN keys] : \A a, b \in 1..n : a # b => p[a] # p[b]}

\* np.argsort(keys), default kind (quicksort, not stable): every ordering of the
\* indices with ascending keys; the order among equal keys is the sort's own
ArgSorts(keys) ==
    LET n == Cardinality(DOMAIN keys)
    IN {p \in [1..n -> DOMAIN keys] :
            /\ \A a, b \in 1..n : a # b => p[a] # p[b]
            /\ \A a \in 1..(n - 1) : keys[p[a]] <= keys[p[a + 1]]}

\* A sort that orders equal keys anew on every call
ArgSortAnew(keys, seen) == ArgSorts(keys)

\* np.argsort(keys) within one run of the notebook: a function of the array, so
\* keys sorted before come out in the order they came out then
ArgSort(keys, seen) ==
    IF keys \in DOMAIN seen THEN {seen[keys]} ELSE ArgSorts(keys)

\* order[:], the whole ranking
SliceAll(order, kk) == order

\* order[kk-1:kk], the item at rank kk alone
SliceWindow(order, kk) ==
    IF kk >= 1 /\ kk <= Len(order) THEN SubSeq(order, kk, kk) ELSE <<>>

\* order[:kk], Python slicing: a negative kk drops the last -kk elements
Slice(order, kk) ==
    SubSeq(order, 1, IF kk >= 0 THEN Min(kk, Len(order))
                                ELSE Max(Len(order) + kk, 0))

\* set(np.argsort(-predictions)[:k])
TopK(order, kk) == Range(Slice(order, kk))

\* ------------------------------------------------ IEEE 754 double division
\* bits of a double's significand after the leading one
MantissaBits == 52

Abs(n) == IF n < 0 THEN -n ELSE n

\* floor(log2(n)) for n >= 1
RECURSIVE Log2Floor(_)
Log2Floor(n) == IF n < 2 THEN 0 ELSE 1 + Log2Floor(n \div 2)

\* the least u >= 0 with a * 2^u >= b, for 1 <= a
RECURSIVE ShiftUp(_, _)
ShiftUp(a, b) == IF a >= b THEN 0 ELSE 1 + ShiftUp(2 * a, b)

\* the exponent e with 2^e <= a/b < 2^(e+1), for a, b >= 1
Binade(a, b) == IF a >= b THEN Log2Floor(a \div b) ELSE -ShiftUp(a, b)

\* 2^t modulo m, by squaring
RECURSIVE PowMod2(_, _)
PowMod2(t, m) ==
    IF t = 0 THEN 1 % m
    ELSE IF t % 2 = 1 THEN (2 * PowMod2(t - 1, m)) % m
    ELSE LET half == PowMod2(t \div 2, m) IN (half * half) % m

\* the exponent t that scales a/b to a significand in [2^52, 2^53)
Scale(a, b) == MantissaBits - Binade(a, Abs(b))

\* Rounding of a / float(b): the significand is the integer M nearest to
\* a * 2^t / |b|, and the error is M * |b| - a * 2^t (a remainder that is
\* exactly half of |b| would need a / |b| to end within 53 bits, and then the
\* remainder is 0)
DivError(a, b) ==
    IF a = 0 \/ b = 0 THEN 0
    ELSE LET m == Abs(b)
             r == (a * PowMod2(Scale(a, b), m)) % m
         IN IF 2 * r < m THEN -r ELSE m - r

\* a / float(b) for integers a >= 0 and b
FloatDiv(a, b) == [num |-> a, den |-> b, err |-> DivError(a, b)]

\* q * q.den in doubles, for q = a / float(b): the exact product is
\* (a * 2^t + err) / 2^t and is rounded to the nearest double (ties to the
\* even significand, which is the one of a). The doubles around a lie 2^s / 2^t
\* apart above a, and half as far below a when a is a power of two. The
\* result is a + ulps units in the last place.
TimesDen(q) ==
    IF q.err = 0 THEN [int |-> q.num, ulps |-> 0]
    ELSE LET a == q.num
             s == Log2Floor(a) - Binade(a, Abs(q.den))
             spacing == IF q.err > 0 \/ a # 2 ^ Log2Floor(a)
                        THEN 2 ^ s ELSE 2 ^ (s - 1)
             f == Abs(q.err) \div spacing
             rem == Abs(q.err) % spacing
             steps == IF 2 * rem < spacing THEN f
                      ELSE IF 2 * rem > spacing THEN f + 1
                      ELSE IF f % 2 = 0 THEN f ELSE f + 1
         IN [int |-> a, ulps |-> IF q.err > 0 THEN steps ELSE -steps]

\* len(top_k & test_pids) / float(len(test_pids))
PrecisionOverTest(top_k, test_pids, kk) ==
    FloatDiv(Cardinality(top_k \cap test_pids), Cardinality(test_pids))

\* len(top_k | test_pids) / float(k)
PrecisionUnion(top_k, test_pids, kk) ==
    FloatDiv(Cardinality(top_k \cup test_pids), kk)

\* len(top_k & test_pids) / float(k)
Precision(top_k, test_pids, kk) ==
    FloatDiv(Cardinality(top_k \cap test_pids), kk)

\* a loop body wrapped in try/except that swallows every exception
RaisedNever(user_id) == "none"

\* The exception the loop body raises for user_id, "none" when it completes
Raised(user_id) ==
    LET pids == Arange(no_items)
        train_pids == TrainPids(train_ratings, user_id)
    IN IF pred_func = "predict_from_latent" /\ LatentRaises(user_id, pids)
         THEN "IndexError"
       ELSE IF MaskRaises(PredFunc(user_id, pids), train_pids)
         THEN "IndexError"
       ELSE IF k = 0
         THEN "ZeroDivisionError"
       ELSE "none"

\* -------------------------------------------------- recall_at_k and map_at_k
\* hits over the length of the recommended list
RecallOverTopK(top_k, test_pids) ==
    [num |-> Cardinality(top_k \cap test_pids), den |-> Cardinality(top_k)]

\* recall of one user: |top-k & TestHistory| / |TestHistory|, kept as a quotient
Recall(top_k, test_pids) ==
    [num |-> Cardinality(top_k \cap test_pids), den |-> Cardinality(test_pids)]

\* relevant items before position p, the item at p left out
HitsBefore(ranked, test_pids, p) ==
    Cardinality({q \in 1..(p - 1) : ranked[q] \in test_pids})

\* relevant items among the first p of the ranked list
HitsUpTo(ranked, test_pids, p) ==
    Cardinality({q \in 1..p : ranked[q] \in test_pids})

\* the sum of the precision-at-p terms divided by k
AveragePrecisionOverK(ranked, test_pids, kk) ==
    LET d == Fact(Len(ranked))
        term == [p \in 1..Len(ranked) |->
                    IF ranked[p] \in test_pids
                    THEN HitsUpTo(ranked, test_pids, p) * (d \div p)
                    ELSE 0]
    IN IF Cardinality(test_pids) = 0 THEN [num |-> 0, den |-> 1]
       ELSE [num |-> SumOver(term, 1..Len(ranked)), den |-> d * kk]

\* Average Precision of one user over the ranked top-k list: the sum of
\* hits-so-far / p over the relevant positions p, divided by min(k, |TestHistory|);
\* 0 for a user with no relevant item.  Kept as a quotient over Fact(length).
AveragePrecision(ranked, test_pids, kk) ==
    LET d == Fact(Len(ranked))
        m == Min(kk, Cardinality(test_pids))
        term == [p \in 1..Len(ranked) |->
                    IF ranked[p] \in test_pids
                    THEN HitsUpTo(ranked, test_pids, p) * (d \div p)
                    ELSE 0]
    IN IF m = 0 THEN [num |-> 0, den |-> 1]
       ELSE [num |-> SumOver(term, 1..Len(ranked)), den |-> d * m]

\* map_at_k leaves out the users that have no test rating
MapKeysTestOnly(train, test) == SortedKeys({r[1] : r \in test})

\* map_at_k handles every user of the ratings, ascending, a user without test
\* ratings included
MapKeys(train, test) == SortedKeys({r[1] : r \in train \cup test})

\* The exception the loop body of map_at_k raises for user_id: scoring and
\* masking are those of precision_at_k, no division can fail
MapRaised(user_id) ==
    IF Raised(user_id) = "IndexError" THEN "IndexError" ELSE "none"

\* ------------------------------------------------------------ pre-processing
\* the values of a column of ratings
Column(frame, name) == {frame[j][name] : j \in DOMAIN frame}

\* len(ratings.<name>.unique())
CountUnique(frame, name) == Cardinality(Column(frame, name))

\* re-scaling by subtracting the smallest id of the file format
ShiftCode(v, values) == v - 1

\* astype('category').cat.codes: the categories are the distinct values in
\* ascending order, the code of a value is its position among them, from 0
CatCode(v, values) ==
    LET categories == SortedKeys(values)
    IN (CHOOSE p \in DOMAIN categories : categories[p] = v) - 1

\* ------------------------------------------------------------------- inputs
SubsetsUpTo(S, n) == {T \in SUBSET S : Cardinality(T) <= n}

\* The arguments of a call: ratings of at most MaxRows rows, k drawn from ks
Inputs(ks) ==
    /\ train_ratings \in SubsetsUpTo(Rows, MaxRows)
    /\ test_ratings \in SubsetsUpTo(Rows, MaxRows - Cardinality(train_ratings))
    /\ no_items \in 0..MaxItems
    /\ k \in ks
    /\ pred_func \in {"predict_from_latent", "predict_from_pop"}
    /\ returns_owned \in IF pred_func = "predict_from_pop" THEN BOOLEAN ELSE {FALSE}
    \* rows that no call reads hold one fixed vector
    /\ user_matrix \in [EmbeddingRows(no_users) -> UserVectors(no_factors)]
    /\ \A u \in DOMAIN user_matrix :
          (pred_func # "predict_from_latent" \/ u \notin Range(GroupKeys(test_ratings)))
              => user_matrix[u] = UnreadUserVector(no_factors)
    /\ item_matrix \in [EmbeddingRows(no_items) -> ItemVectors(no_factors)]
    /\ \A i \in DOMAIN item_matrix :
          (pred_func # "predict_from_latent" \/ i = no_items \/ test_ratings = {})
              => item_matrix[i] = UnreadItemVector(no_factors)
    /\ pop_scores = PopularityCounts(train_ratings, no_items)

\* Entry of a function body: nothing handled yet, empty result list
Start(at) ==
    /\ ratings = <<>>
    /\ counts = <<>>
    /\ pc = at
    /\ pos = 0
    /\ precisions = <<>>
    /\ maps = <<>>
    /\ handled = <<>>
    /\ locals = <<>>
    /\ err = "none"
    /\ rerun = FALSE
    /\ prev_precisions = <<>>
    /\ tie_order = <<>>

\* Entry of precision_at_k
Setup(ks) == Inputs(ks) /\ Start("loop")

\* ------------------------------------------------------------------ actions
\* One pass of the loop body for the next group of test_ratings, no exception
\* (locals also keeps what recall_at_k and map_at_k make of the same top-k)
HandleUser ==
    /\ pc = "loop"
    /\ pos < Len(GroupKeys(test_ratings))
    /\ LET user_id == GroupKeys(test_ratings)[pos + 1]
           train_pids == TrainPids(train_ratings, user_id)
           test_pids == TestPids(test_ratings, user_id)
           scores == PredFunc(user_id, Arange(no_items))
           predictions == Mask(scores, train_pids)
       IN /\ Raised(user_id) = "none"
          /\ handled' = Append(handled, user_id)
          /\ \E order \in ArgSort(Negate(predictions), tie_order) :
                LET top_k == TopK(order, k)
                IN /\ precisions' = Append(precisions, Precision(top_k, test_pids, k))
                   /\ locals' = <<
                         [user_id |-> user_id, train_pids |-> train_pids,
                          test_pids |-> test_pids, scores |-> scores,
                          predictions |-> predictions,
                          ranked |-> Slice(order, k), top_k |-> top_k,
                          recall |-> Recall(top_k, test_pids),
                          ap |-> AveragePrecision(Slice(order, k), test_pids, k)]>>
                   /\ tie_order' = (Negate(predictions) :> order) @@ tie_order
          \* the write of line 670 lands in the array pred_func returned
          /\ pop_scores' = IF returns_owned THEN predictions ELSE pop_scores
    /\ pos' = pos + 1
    /\ UNCHANGED <<notebook, args, frames, weights, pc, maps, err, rerun, prev_precisions>>

\* The loop body raises: the exception leaves precision_at_k, nothing is returned
RaiseError ==
    /\ pc = "loop"
    /\ pos < Len(GroupKeys(test_ratings))
    /\ LET user_id == GroupKeys(test_ratings)[pos + 1]
           train_pids == TrainPids(train_ratings, user_id)
           scores == PredFunc(user_id, Arange(no_items))
       IN /\ Raised(user_id) # "none"
          /\ err' = Raised(user_id)
          \* a division by zero comes after the masking write, an IndexError before
          /\ pop_scores' = IF returns_owned /\ Raised(user_id) = "ZeroDivisionError"
                           THEN Mask(scores, train_pids) ELSE pop_scores
    /\ pc' = "raised"
    /\ UNCHANGED <<tie_order, notebook, args, frames, weights, pos, precisions, maps, handled, locals, rerun,
                   prev_precisions>>

\* return precisions
Return ==
    /\ pc = "loop"
    /\ pos = Len(GroupKeys(test_ratings))
    /\ pc' = "returned"
    /\ UNCHANGED <<tie_order, notebook, args, frames, weights, pop_scores, pos, precisions, maps, handled, locals,
                   err, rerun, prev_precisions>>

\* The notebook calls precision_at_k again with the same arguments
CallAgain ==
    /\ pc = "returned"
    /\ ~rerun
    /\ rerun' = TRUE
    /\ prev_precisions' = precisions
    /\ precisions' = <<>>
    /\ handled' = <<>>
    /\ locals' = <<>>
    /\ pos' = 0
    /\ pc' = "loop"
    /\ UNCHANGED <<tie_order, notebook, args, frames, weights, pop_scores, maps, err>>

\* One pass of the loop body of map_at_k: same scoring, masking and top-k as
\* precision_at_k, then the Average Precision of the ranked list
MapUser ==
    /\ pc = "map_loop"
    /\ pos < Len(MapKeys(train_ratings, test_ratings))
    /\ LET user_id == MapKeys(train_ratings, test_ratings)[pos + 1]
           train_pids == TrainPids(train_ratings, user_id)
           test_pids == TestPids(test_ratings, user_id)
           scores == PredFunc(user_id, Arange(no_items))
           predictions == Mask(scores, train_pids)
       IN /\ MapRaised(user_id) = "none"
          /\ handled' = Append(handled, user_id)
          /\ \E order \in ArgSort(Negate(predictions), tie_order) :
                LET ranked == Slice(order, k)
                IN /\ maps' = Append(maps, AveragePrecision(ranked, test_pids, k))
                   /\ locals' = <<
                         [user_id |-> user_id, train_pids |-> train_pids,
                          test_pids |-> test_pids, scores |-> scores,
                          predictions |-> predictions,
                          ranked |-> ranked, top_k |-> TopK(order, k)]>>
                   /\ tie_order' = (Negate(predictions) :> order) @@ tie_order
          /\ pop_scores' = IF returns_owned THEN predictions ELSE pop_scores
    /\ pos' = pos + 1
    /\ UNCHANGED <<notebook, args, frames, weights, pc, precisions, err, rerun, prev_precisions>>

\* The loop body of map_at_k raises
MapRaise ==
    /\ pc = "map_loop"
    /\ pos < Len(MapKeys(train_ratings, test_ratings))
    /\ LET user_id == MapKeys(train_ratings, test_ratings)[pos + 1]
       IN /\ MapRaised(user_id) # "none"
          /\ err' = MapRaised(user_id)
    /\ pc' = "raised"
    /\ UNCHANGED <<tie_order, notebook, args, frames, weights, pop_scores, pos, precisions, maps, handled,
                   locals, rerun, prev_precisions>>

\* map_at_k returns its list
MapReturn ==
    /\ pc = "map_loop"
    /\ pos = Len(MapKeys(train_ratings, test_ratings))
    /\ pc' = "map_returned"
    /\ UNCHANGED <<tie_order, notebook, args, frames, weights, pop_scores, pos, precisions, maps, handled,
                   locals, err, rerun, prev_precisions>>

\* no_users, no_items, no_ratings = len(unique user ids), len(unique item ids),
\* len(ratings.index)
CountIds ==
    /\ pc = "loaded"
    /\ counts' = [no_users |-> CountUnique(ratings, "user_id"),
                  no_ratings |-> Len(ratings)]
    /\ no_items' = CountUnique(ratings, "item_id")
    /\ pc' = "counted"
    /\ UNCHANGED <<tie_order, ratings, k, pred_func, returns_owned, frames, weights, pop_scores, pos,
                   precisions, maps, handled, locals, err, rerun, prev_precisions>>

\* The re-indexing cell: keep the ids in original_user_id / original_item_id,
\* replace user_id and item_id by their category codes
Reindex ==
    /\ pc = "counted"
    /\ ratings' =
          [j \in DOMAIN ratings |->
              [original_user_id |-> ratings[j].user_id,
               original_item_id |-> ratings[j].item_id,
               user_id |-> CatCode(ratings[j].user_id, Column(ratings, "user_id")),
               item_id |-> CatCode(ratings[j].item_id, Column(ratings, "item_id"))]]
    /\ pc' = "reindexed"
    /\ UNCHANGED <<tie_order, counts, args, frames, weights, pop_scores, pos, precisions, maps,
                   handled, locals, err, rerun, prev_precisions>>

\* One call with k >= 1
Init == Setup(1..MaxK)

Next == HandleUser \/ RaiseError \/ Return

Spec == Init /\ [][Next]_vars

\* One call with k up to LargeK, the popularity scores computed anew on each
\* call, one training row at most and one test row at most
InitLargeK ==
    /\ train_ratings \in SubsetsUpTo(Rows, 1)
    /\ test_ratings \in SubsetsUpTo(Rows, 1)
    /\ no_items \in 0..MaxItems
    /\ k \in 1..LargeK
    /\ pred_func = "predict_from_pop"
    /\ returns_owned = FALSE
    /\ user_matrix = [u \in EmbeddingRows(no_users) |-> UnreadUserVector(no_factors)]
    /\ item_matrix = [i \in EmbeddingRows(no_items) |-> UnreadItemVector(no_factors)]
    /\ pop_scores = PopularityCounts(train_ratings, no_items)
    /\ Start("loop")

SpecLargeK == InitLargeK /\ [][Next]_vars

\* One call with any k, the malformed values 0 and -1 included
InitAnyK == Setup((-1)..MaxK)

SpecAnyK == InitAnyK /\ [][Next]_vars

\* Two calls in a row on the same arguments
NextTwice == HandleUser \/ RaiseError \/ Return \/ CallAgain

\* ... with the popularity scores, computed anew on each call
InitTwice == Init /\ pred_func = "predict_from_pop" /\ ~returns_owned

SpecTwice == InitTwice /\ [][NextTwice]_vars

\* One call with the popularity scores, one training row and up to MaxRows test
\* rows: enough for a masked user followed by another user
InitShared ==
    /\ train_ratings \in SubsetsUpTo(Rows, 1)
    /\ test_ratings \in SubsetsUpTo(Rows, MaxRows)
    /\ no_items \in 0..MaxItems
    /\ k \in 1..MaxK
    /\ pred_func = "predict_from_pop"
    /\ returns_owned \in BOOLEAN
    /\ user_matrix = [u \in EmbeddingRows(no_users) |-> UnreadUserVector(no_factors)]
    /\ item_matrix = [i \in EmbeddingRows(no_items) |-> UnreadItemVector(no_factors)]
    /\ pop_scores = PopularityCounts(train_ratings, no_items)
    /\ Start("loop")

SpecShared == InitShared /\ [][Next]_vars

\* One call with the popularity scores of up to MaxRows + 1 training rows over
\* the items 0..MaxItems, a fresh array on every call
InitPop ==
    /\ train_ratings \in SubsetsUpTo(UserIds \X (0..MaxItems), MaxRows + 1)
    /\ test_ratings \in SubsetsUpTo(UserIds \X (0..MaxItems), 1)
    /\ no_items \in 0..(MaxItems + 1)
    /\ k \in 1..MaxK
    /\ pred_func = "predict_from_pop"
    /\ returns_owned = FALSE
    /\ user_matrix = [u \in EmbeddingRows(no_users) |-> UnreadUserVector(no_factors)]
    /\ item_matrix = [i \in EmbeddingRows(no_items) |-> UnreadItemVector(no_factors)]
    /\ pop_scores = PopularityCounts(train_ratings, no_items)
    /\ Start("loop")

SpecPop == InitPop /\ [][Next]_vars

\* One call on the ratings of the worked scenarios (user 0 trained on item 0,
\* tested on items 1 and 2) with a model whose score of item i is any of
\* ScenarioScores
InitScenario ==
    /\ train_ratings = {<<0, 0>>}
    /\ test_ratings = {<<0, 1>>, <<0, 2>>}
    /\ no_items \in 0..ScenarioItems
    /\ k \in 1..MaxK
    /\ pred_func = "predict_from_latent"
    /\ returns_owned = FALSE
    /\ user_matrix = [u \in EmbeddingRows(no_users) |-> ScoreVector(1, no_factors)]
    /\ item_matrix \in [EmbeddingRows(no_items) ->
                            {ScoreVector(x, no_factors) : x \in ScenarioScores}]
    /\ item_matrix[no_items] = ScoreVector(0, no_factors)
    /\ pop_scores = PopularityCounts(train_ratings, no_items)
    /\ Start("loop")

SpecScenario == InitScenario /\ [][Next]_vars

\* The notebook after read_csv: up to MaxRatings rows of ids in 1..MaxOriginalId,
\* no model, no split and no evaluation yet
RECURSIVE SeqsUpTo(_, _)
SeqsUpTo(S, n) ==
    IF n = 0 THEN {<<>>}
    ELSE SeqsUpTo(S, n - 1) \cup [1..n -> S]

InitReindex ==
    /\ ratings \in SeqsUpTo([user_id : 1..MaxOriginalId, item_id : 1..MaxOriginalId],
                             MaxRatings)
    /\ counts = <<>>
    /\ no_items = 0
    /\ k = 1
    /\ pred_func = "predict_from_latent"
    /\ returns_owned = FALSE
    /\ train_ratings = {}
    /\ test_ratings = {}
    /\ user_matrix = <<>>
    /\ item_matrix = <<>>
    /\ pop_scores = <<>>
    /\ pc = "loaded"
    /\ pos = 0
    /\ precisions = <<>>
    /\ maps = <<>>
    /\ handled = <<>>
    /\ locals = <<>>
    /\ err = "none"
    /\ rerun = FALSE
    /\ prev_precisions = <<>>
    /\ tie_order = <<>>

NextReindex == CountIds \/ Reindex

SpecReindex == InitReindex /\ [][NextReindex]_vars

\* The call map_at_k(model, predict_from_latent, ...) with k >= 1
InitMap ==
    /\ Inputs(1..MaxK)
    /\ pred_func = "predict_from_latent"
    /\ Start("map_loop")

NextMap == MapUser \/ MapRaise \/ MapReturn

SpecMap == InitMap /\ [][NextMap]_vars

\* ==================================================================== claims
\* The latest pass of the loop body, when there is one
Passed == locals # <<>>
Cur == locals[1]
TestUsers == {u \in UserIds : \E i \in ItemIds : <<u, i>> \in test_ratings}

\* C1: for every k >= 1, every score vector and every training history, the
\* top-k list of a user holds no item of that user's training history.
\* The ratings keep the caller's contract: item ids below no_items, no rating
\* in both dataframes
WellFormedRatings ==
    /\ \A r \in train_ratings \cup test_ratings : r[2] \in Arange(no_items)
    /\ train_ratings \cap test_ratings = {}

\* ... and the score function returns a fresh array on every call
WellFormed == WellFormedRatings /\ ~returns_owned

C1_TopKNeverSeen ==
    (Passed /\ WellFormed) =>
        \A i \in Cur.top_k : <<Cur.user_id, i>> \notin train_ratings

\* C2 as stated: the value appended for a user is |top-k & TestHistory| / k,
\* and that value times k is exactly the integer number of ranked items the
\* user has a test rating for.
Hits == Cardinality({p \in DOMAIN Cur.ranked :
                        <<Cur.user_id, Cur.ranked[p]>> \in test_ratings})

C2_PrecisionTimesKIsHits ==
    /\ Len(precisions) = Len(handled)
    /\ Passed =>
          /\ precisions[Len(precisions)].den = k
          /\ precisions[Len(precisions)].num = Hits
          /\ TimesDen(precisions[Len(precisions)]) = [int |-> Hits, ulps |-> 0]

\* C2: the value appended for a user is the double nearest to
\* |top-k & TestHistory| / k, and that value times k, computed in doubles, is
\* the number of ranked items the user has a test rating for or a double next
\* to it; it is that number when the division is exact.
NearestDouble(q) ==
    /\ 2 * Abs(q.err) <= Abs(q.den)
    /\ q.num > 0 =>
          (q.num * PowMod2(Scale(q.num, q.den), Abs(q.den)) + q.err) % Abs(q.den) = 0
    /\ q.num = 0 => q.err = 0

C2_PrecisionIsHitsOverK ==
    /\ Len(precisions) = Len(handled)
    /\ Passed =>
          LET q == precisions[Len(precisions)]
          IN /\ q.den = k
             /\ q.num = Hits
             /\ NearestDouble(q)
             /\ TimesDen(q).int = Hits
             /\ TimesDen(q).ulps \in {-1, 0, 1}
             /\ (Hits * PowMod2(MantissaBits, k)) % k = 0 => TimesDen(q).ulps = 0

\* a pass with k = 49 and one hit: 1 / 49.0 * 49 is the double below 1
C2_Witness ==
    /\ Passed
    /\ k = 49
    /\ precisions[Len(precisions)].num = 1
    /\ precisions[Len(precisions)].err = -23
    /\ TimesDen(precisions[Len(precisions)]) = [int |-> 1, ulps |-> -1]

\* C3: for k >= 1 every per-user value (precision, recall, average precision)
\* lies in [0, 1].
InUnit(q) == q.den > 0 /\ 0 <= q.num /\ q.num <= q.den

C3_MetricsInUnitInterval ==
    /\ \A j \in DOMAIN precisions : InUnit(precisions[j])
    /\ Passed => InUnit(Cur.recall) /\ InUnit(Cur.ap)

\* a pass where precision and average precision reach 1 with two ranked items
C3_Witness ==
    /\ Passed
    /\ k = 2
    /\ precisions[Len(precisions)].num = 2
    /\ Cur.ap.num = Cur.ap.den
    /\ Cur.recall.num = Cur.recall.den

\* C4: the returned list has one entry per distinct user of test_ratings, users
\* met only in train_ratings have none, and the entries follow the ascending
\* user order in which groupby yields the groups.
C4_OneEntryPerTestUser ==
    /\ \A a, b \in DOMAIN handled : a < b => handled[a] < handled[b]
    /\ Range(handled) \subseteq TestUsers
    /\ pc = "returned" =>
          /\ Len(precisions) = Cardinality(TestUsers)
          /\ Range(handled) = TestUsers

\* a list of two entries has been returned
C4_Witness ==
    /\ pc = "returned"
    /\ Len(precisions) = 2
    /\ handled = <<0, 1>>

\* C5: a user with no test rating gets no entry, and no division by zero occurs.
C5_EmptyTestUserExcluded ==
    /\ \A j \in DOMAIN handled :
          \E i \in ItemIds : <<handled[j], i>> \in test_ratings
    /\ Len(precisions) = Len(handled)
    /\ Passed => Cur.test_pids # {}
    /\ err # "ZeroDivisionError"

\* the call returned and left out a user that has training ratings only
C5_Witness ==
    /\ pc = "returned"
    /\ Len(precisions) = 1
    /\ \E r \in train_ratings :
          /\ r[1] \notin TestUsers
          /\ r[1] \notin Range(handled)

\* C6: a call with k < 1 fails fast with an InvalidArgument error instead of
\* producing a degenerate value: no precision is ever appended, and an
\* exception that leaves the call is InvalidArgument.
C6_BadKFailsFast ==
    (k < 1 /\ WellFormed) =>
        /\ precisions = <<>>
        /\ pc = "raised" => err = "InvalidArgument"

\* C7: a call with no_items <= 0 fails fast with an InvalidArgument error
\* instead of computing precisions over an empty candidate set: no precision
\* is ever appended.
C7_BadNoItemsFailsFast ==
    no_items <= 0 => precisions = <<>>

\* C8: a test user whose id is outside [0, no_users) is never scored by
\* predict_from_latent from a row of the user table, and the call does not
\* return a list.
C8_MissingUserFailsFast ==
    (/\ pred_func = "predict_from_latent"
     /\ WellFormed
     /\ \E u \in TestUsers : u \notin 0..(no_users - 1)) =>
        /\ Passed => Cur.user_id \in 0..(no_users - 1)
        /\ pc # "returned"

C10_InputsUnchanged ==
    [][WellFormedRatings =>
          UNCHANGED <<train_ratings, test_ratings, user_matrix, item_matrix,
                      pop_scores>>]_vars

\* C11: the precision appended for a user is one that the user's own scores
\* (what the score function computes from its arguments), the user's own
\* training rows and the user's own test rows give, whatever was handled
\* before, also when the score function returns the same array on every call.
OwnScores(user_id) ==
    IF pred_func = "predict_from_latent"
    THEN predict_from_latent(user_id, Arange(no_items))
    ELSE PopularityCounts(train_ratings, no_items)

C11_UsersIndependent ==
    (Passed /\ WellFormedRatings) =>
        \E order \in ArgSorts(Negate(Mask(OwnScores(Cur.user_id), Cur.train_pids))) :
            precisions[Len(precisions)] = Precision(TopK(order, k), Cur.test_pids, k)

\* C12: recall_at_k works on the top-k list precision_at_k works on, and the
\* recall of a user is the number of ranked items the user has a test rating
\* for over the number of items the user has a test rating for; it is 1 when
\* every such item is in the top-k list.
C12_RecallIsHitsOverTest ==
    Passed =>
        LET test == {r[2] : r \in {x \in test_ratings : x[1] = Cur.user_id}}
        IN /\ Cur.recall.den = Cardinality(test)
           /\ Cur.recall.num =
                 Cardinality({p \in DOMAIN Cur.ranked : Cur.ranked[p] \in test})
           /\ Cur.recall.num = precisions[Len(precisions)].num
           /\ test \subseteq Cur.top_k =>
                 Cur.recall.den > 0 /\ Cur.recall.num = Cur.recall.den

\* both test items of a user are in that user's top-2 list
C12_Witness ==
    /\ Passed
    /\ Cardinality(Cur.test_pids) = 2
    /\ Cur.test_pids \subseteq Cur.top_k
    /\ Cur.recall = [num |-> 2, den |-> 2]

\* C13: the Average Precision map_at_k appends for a user is what the walk
\* over the ranked list gives: from position 1 on, each position whose item
\* the user has a test rating for adds (relevant items so far, this one
\* included) / position to a running sum, and the sum is divided by
\* min(k, number of test items of the user).
SameQuotient(a, b) == a.num * b.den = b.num * a.den

\* the running sum after positions p.. of the walk, as a quotient
RECURSIVE WalkSum(_, _, _, _, _)
WalkSum(ranked, test, p, hits, sum) ==
    IF p > Len(ranked) THEN sum
    ELSE IF ranked[p] \in test
      THEN WalkSum(ranked, test, p + 1, hits + 1,
                   [num |-> sum.num * p + (hits + 1) * sum.den, den |-> sum.den * p])
    ELSE WalkSum(ranked, test, p + 1, hits, sum)

C13_AveragePrecisionIsWalk ==
    /\ Len(maps) = Len(handled)
    /\ (Passed /\ Cur.test_pids # {}) =>
          LET test == {r[2] : r \in {x \in test_ratings : x[1] = Cur.user_id}}
              walk == WalkSum(Cur.ranked, test, 1, 0, [num |-> 0, den |-> 1])
              ap == maps[Len(maps)]
          IN /\ ap.den > 0
             /\ SameQuotient(ap, [num |-> walk.num,
                                   den |-> walk.den * Min(k, Cardinality(test))])

\* the only relevant item sits at position 2 of a list of two: AP = (1/2) / 1
C13_Witness ==
    /\ Passed
    /\ Len(Cur.ranked) = 2
    /\ Cur.ranked[1] \notin Cur.test_pids
    /\ Cur.ranked[2] \in Cur.test_pids
    /\ SameQuotient(maps[Len(maps)], [num |-> 1, den |-> 2])

\* C14: with k >= the number of test items of a user and a perfect ranking
\* (the first ranks of the list are all held by test items of the user, as
\* many as the user has), the Average Precision of the user is exactly 1.
PerfectRanking ==
    \A p \in 1..Cardinality(Cur.test_pids) :
        p \in DOMAIN Cur.ranked /\ Cur.ranked[p] \in Cur.test_pids

C14_PerfectRankingGivesOne ==
    (Passed /\ k >= Cardinality(Cur.test_pids) /\ PerfectRanking) =>
        maps[Len(maps)].num = maps[Len(maps)].den

\* C14, amended: ... for a user that has at least one test item
C14_PerfectRankingOfTestUserGivesOne ==
    (Passed /\ Cur.test_pids # {} /\ k >= Cardinality(Cur.test_pids) /\ PerfectRanking) =>
        maps[Len(maps)].num = maps[Len(maps)].den

\* one test item, ranked first of two, with k = 2
C14_Witness ==
    /\ Passed
    /\ k = 2
    /\ Len(Cur.ranked) = 2
    /\ Cardinality(Cur.test_pids) = 1
    /\ PerfectRanking
    /\ maps[Len(maps)].num = maps[Len(maps)].den

\* C15: map_at_k keeps a user that has no test rating: every user of the
\* ratings gets one entry, the entry of a user without test ratings is 0, and
\* no division by zero occurs; precision_at_k has no group for such a user.
AllUsers == {r[1] : r \in train_ratings \cup test_ratings}

C15_EmptyTestUserGetsZero ==
    /\ Len(maps) = Len(handled)
    /\ Range(handled) \subseteq AllUsers
    /\ pc = "map_returned" =>
          Range(handled) = AllUsers /\ Len(maps) = Cardinality(AllUsers)
    /\ (Passed /\ \A r \in test_ratings : r[1] # Cur.user_id) =>
          /\ maps[Len(maps)].num = 0
          /\ maps[Len(maps)].den > 0
          /\ Cur.user_id \notin Range(GroupKeys(test_ratings))
    /\ err # "ZeroDivisionError"

\* map_at_k returned two entries, the first for a user with training ratings only
C15_Witness ==
    /\ pc = "map_returned"
    /\ handled = <<0, 1>>
    /\ TestPids(test_ratings, 0) = {}
    /\ TestPids(test_ratings, 1) # {}
    /\ maps[1].num = 0
    /\ Len(maps) = 2

\* C16: no_items = 4, k = 2, user 0 trained on item 0 and tested on items 1
\* and 2.  With scores [5, 10, 1, 0] item 0 is masked and the ranked top-2 is
\* [1, 2]; with scores [5, 1, 10, 0] it is [2, 1]; in both cases precision,
\* recall and Average Precision are 1.
ArrayOf(seq) == [i \in 0..(Len(seq) - 1) |-> seq[i + 1]]

ScenarioPass(sc) ==
    /\ Passed
    /\ no_items = 4
    /\ k = 2
    /\ train_ratings = {<<0, 0>>}
    /\ test_ratings = {<<0, 1>>, <<0, 2>>}
    /\ Cur.user_id = 0
    /\ Cur.scores = ArrayOf(sc)

AllOne ==
    /\ precisions[Len(precisions)] = [num |-> 2, den |-> 2, err |-> 0]
    /\ Cur.recall = [num |-> 2, den |-> 2]
    /\ Cur.ap.den > 0
    /\ Cur.ap.num = Cur.ap.den

C16_ScenarioBothRelevant ==
    /\ ScenarioPass(<<5, 10, 1, 0>>) =>
          /\ Cur.predictions[0] = NegInf
          /\ Cur.ranked = <<1, 2>>
          /\ AllOne
    /\ ScenarioPass(<<5, 1, 10, 0>>) =>
          /\ Cur.predictions[0] = NegInf
          /\ Cur.ranked = <<2, 1>>
          /\ AllOne

\* the pass of the second scenario: item 2 ranked before item 1
C16_Witness ==
    /\ ScenarioPass(<<5, 1, 10, 0>>)
    /\ Cur.ranked = <<2, 1>>
    /\ AllOne

\* C17: same ratings, scores [5, 10, 0, 1]: the ranked top-2 is [1, 3] and
\* precision, recall and Average Precision are 1/2.
C17_ScenarioOneRelevant ==
    ScenarioPass(<<5, 10, 0, 1>>) =>
        /\ Cur.ranked = <<1, 3>>
        /\ precisions[Len(precisions)] = [num |-> 1, den |-> 2, err |-> 0]
        /\ Cur.recall = [num |-> 1, den |-> 2]
        /\ Cur.ap.den > 0
        /\ SameQuotient(Cur.ap, [num |-> 1, den |-> 2])

\* the pass of the scenario: item 3 sits at rank 2
C17_Witness ==
    /\ ScenarioPass(<<5, 10, 0, 1>>)
    /\ Cur.ranked[2] = 3
    /\ precisions[Len(precisions)].num = 1

\* C18: the vector predict_from_pop returns has one entry per item id below
\* no_items, and entry i is the number of users with a training rating of
\* item i, 0 when there is none; user 0 trained on {0, 1} and user 1 on {1}
\* with no_items = 3 give [1, 2, 0].
C18_PopularityCountsUsers ==
    Passed =>
        /\ DOMAIN Cur.scores = 0..(no_items - 1)
        /\ \A i \in DOMAIN Cur.scores :
              Cur.scores[i] = Cardinality({u \in UserIds : <<u, i>> \in train_ratings})
        /\ (train_ratings = {<<0, 0>>, <<0, 1>>, <<1, 1>>} /\ no_items = 3) =>
              Cur.scores = ArrayOf(<<1, 2, 0>>)

\* the loop has scored a user on the ratings of the example
C18_Witness ==
    /\ Passed
    /\ train_ratings = {<<0, 0>>, <<0, 1>>, <<1, 1>>}
    /\ no_items = 3
    /\ Cur.scores = ArrayOf(<<1, 2, 0>>)

\* C19: predict_from_latent returns one score per candidate, at the
\* candidate's position, equal to the sum over the factors of the product of
\* the user's weight and the candidate's weight, and no step changes either
\* embedding table.
C19_LatentIsDotProduct ==
    /\ [](Passed /\ pred_func = "predict_from_latent" =>
            /\ DOMAIN Cur.scores = 0..(no_items - 1)
            /\ \A i \in DOMAIN Cur.scores :
                  Cur.scores[i] =
                      SumOver([f \in 1..no_factors |->
                                  user_matrix[Cur.user_id][f] * item_matrix[i][f]],
                              1..no_factors))
    /\ [][UNCHANGED <<user_matrix, item_matrix>>]_vars

\* two candidates scored for a user with weight -1: scores -1 and 0
C19_Witness ==
    /\ Passed
    /\ pred_func = "predict_from_latent"
    /\ no_items = 2
    /\ user_matrix[Cur.user_id][1] = -1
    /\ Cur.scores[0] = -1
    /\ Cur.scores[1] = 0

\* C20: a call of precision_at_k ends.  The loop never handles a user twice
\* and never more passes than there are test users, in the loop a step is
\* always possible (the next user is handled or raises, or the list is
\* returned), every step of the loop either handles the next user or leaves
\* the loop, a call that returned has handled each test user exactly once, and
\* on ratings that keep the caller's contract the call returns.
CanStep ==
    \/ pos = Len(GroupKeys(test_ratings))
    \/ /\ pos < Len(GroupKeys(test_ratings))
       /\ LET user_id == GroupKeys(test_ratings)[pos + 1]
          IN \/ Raised(user_id) # "none"
             \/ ArgSorts(Negate(Mask(PredFunc(user_id, Arange(no_items)),
                                     TrainPids(train_ratings, user_id)))) # {}

C20_HandlesEachOnceAndEnds ==
    /\ [](/\ pos = Len(handled)
          /\ pos <= Cardinality(TestUsers)
          /\ \A a, b \in DOMAIN handled : a # b => handled[a] # handled[b]
          /\ pc = "loop" => CanStep
          /\ pc = "returned" =>
                \A u \in TestUsers :
                    Cardinality({j \in DOMAIN handled : handled[j] = u}) = 1
          /\ (WellFormedRatings /\ pc # "loop") => pc = "returned")
    /\ [][/\ pc = "loop"
          /\ pc' = "loop" => pos' = pos + 1
          /\ pc' # "loop" => pos' = pos]_vars

\* the call returned after one pass for a user that has two test rows
C20_Witness ==
    /\ pc = "returned"
    /\ Cardinality(test_ratings) = 2
    /\ handled = <<0>>
    /\ WellFormedRatings

\* C21: a pass for a user with fewer than k unseen items (no_items minus the
\* user's training items below k) does not fill the top-k with training items
\* of the user: the case is flagged instead of completing with such a list.
UnseenItems == Arange(no_items) \ Cur.train_pids

C21_ShortOfUnseenIsFlagged ==
    (Passed /\ WellFormed /\ Cardinality(UnseenItems) < k) =>
        Cur.top_k \cap Cur.train_pids = {}

\* C22: masking the training items to -inf and taking the k best of all
\* candidates selects the same top-k sets as removing the training items from
\* the candidates and taking the k best of the rest.
\* The top-k sets of the filter-first procedure, one per order of the tied scores
FilterTopKs(scores, train_pids, kk) ==
    LET kept == [i \in (DOMAIN scores) \ train_pids |-> scores[i]]
    IN {TopK(order, kk) : order \in ArgSorts(Negate(kept))}

\* The top-k sets of lines 670-672
MaskTopKs(scores, train_pids, kk) ==
    {TopK(order, kk) : order \in ArgSorts(Negate(Mask(scores, train_pids)))}

C22_MaskEqualsFilter ==
    (Passed /\ WellFormed) =>
        /\ Cur.top_k \in MaskTopKs(Cur.scores, Cur.train_pids, k)
        /\ MaskTopKs(Cur.scores, Cur.train_pids, k) =
               FilterTopKs(Cur.scores, Cur.train_pids, k)

\* C23: an exception of the loop body is not caught or retried.  The call is
\* left with the exception of the first user whose pass fails, after the
\* passes of the users before, and takes no further step: nothing is returned.
\* A call that returned has met no failing user and skipped none.
MaskFails(u) == \E r \in train_ratings : r[1] = u /\ r[2] \notin Arange(no_items)

C23_ErrorsSurface ==
    /\ [](/\ err # "none" <=> pc = "raised"
          /\ pc = "raised" =>
                /\ pos < Len(GroupKeys(test_ratings))
                /\ MaskFails(GroupKeys(test_ratings)[pos + 1])
                /\ err = "IndexError"
                /\ Len(precisions) = pos
                /\ \A j \in DOMAIN handled : ~MaskFails(handled[j])
          /\ pc = "returned" =>
                /\ \A u \in TestUsers : ~MaskFails(u)
                /\ Len(precisions) = Cardinality(TestUsers))
    /\ [][pc # "raised"]_vars

\* the second user's pass raised after the first user's pass had appended a value
C23_Witness ==
    /\ pc = "raised"
    /\ err = "IndexError"
    /\ Len(precisions) = 1
    /\ handled = <<0>>

\* C24: after the re-indexing cell the user ids of ratings are exactly
\* 0..no_users-1 and the item ids exactly 0..no_items-1, two rows share a new
\* id exactly when they shared the original id, and original_user_id /
\* original_item_id hold the ids the rows had before.
C24_ReindexIsDense ==
    /\ [](pc = "reindexed" =>
            /\ Column(ratings, "user_id") = 0..(counts.no_users - 1)
            /\ Column(ratings, "item_id") = 0..(no_items - 1)
            /\ \A a, b \in DOMAIN ratings :
                  /\ ratings[a].user_id = ratings[b].user_id
                        <=> ratings[a].original_user_id = ratings[b].original_user_id
                  /\ ratings[a].item_id = ratings[b].item_id
                        <=> ratings[a].original_item_id = ratings[b].original_item_id)
    /\ [][pc = "counted" =>
            /\ DOMAIN ratings' = DOMAIN ratings
            /\ \A j \in DOMAIN ratings :
                  /\ ratings'[j].original_user_id = ratings[j].user_id
                  /\ ratings'[j].original_item_id = ratings[j].item_id]_vars

\* two rows of users 1 and 3 and items 3 and 2 got user ids 0 and 1, item ids 1 and 0
C24_Witness ==
    /\ pc = "reindexed"
    /\ Len(ratings) = 2
    /\ ratings[1] = [original_user_id |-> 1, original_item_id |-> 3,
                     user_id |-> 0, item_id |-> 1]
    /\ ratings[2] = [original_user_id |-> 3, original_item_id |-> 2,
                     user_id |-> 1, item_id |-> 0]

\* C25: an item that a user has both a training and a test rating for raises
\* no error; it is masked like every training item, and when at least k items
\* are not training items of the user it is not in the top-k and is not
\* counted as a hit.
SeenAndTested == Cur.train_pids \cap Cur.test_pids

C25_OverlapIsMaskedNotChecked ==
    /\ pc = "raised" => \E r \in train_ratings : r[2] \notin Arange(no_items)
    /\ Passed =>
          /\ \A i \in SeenAndTested : Cur.predictions[i] = NegInf
          /\ Cardinality(UnseenItems) >= k =>
                /\ Cur.top_k \cap SeenAndTested = {}
                /\ precisions[Len(precisions)].num =
                      Cardinality(Cur.top_k \cap (Cur.test_pids \ Cur.train_pids))

\* the only test item of the user is also a training item with the highest
\* popularity; another item takes the top-1 and the precision is 0
C25_Witness ==
    /\ Passed
    /\ k = 1
    /\ SeenAndTested = Cur.test_pids
    /\ Cardinality(SeenAndTested) = 1
    /\ \A i \in SeenAndTested : \A j \in DOMAIN Cur.scores : Cur.scores[j] <= Cur.scores[i]
    /\ Cardinality(Cur.top_k) = 1
    /\ precisions[Len(precisions)].num = 0

\* C26: when at least k items are not training items of the user and the
\* scores of those items are finite, no item of the top-k is a training item
\* of the user, and no unseen item left out of the top-k has a higher score
\* than a selected item.
C26_TopKIsBestUnseen ==
    (/\ Passed
     /\ Cardinality(UnseenItems) >= k
     /\ \A i \in UnseenItems : Cur.scores[i] > NegInf) =>
        /\ \A i \in Cur.top_k : <<Cur.user_id, i>> \notin train_ratings
        /\ \A j \in UnseenItems \ Cur.top_k :
              \A i \in Cur.top_k : Cur.scores[j] <= Cur.scores[i]

\* two of three unseen items selected, the one left out ties with a selected one
C26_Witness ==
    /\ Passed
    /\ k = 2
    /\ no_items = 4
    /\ Cardinality(Cur.top_k) = 2
    /\ Cur.top_k \subseteq UnseenItems
    /\ \E j \in UnseenItems \ Cur.top_k : \E i \in Cur.top_k : Cur.scores[j] = Cur.scores[i]
    /\ \E j \in UnseenItems \ Cur.top_k : \E i \in Cur.top_k : Cur.scores[j] < Cur.scores[i]

\* C27: for k >= 1 the ranked list of a pass has exactly min(k, no_items)
\* entries, pairwise distinct item ids below no_items, and so has the top-k
\* set; when k > no_items the precision still has denominator k and at most
\* no_items hits.
C27_TopKSize ==
    Passed =>
        /\ Len(Cur.ranked) = Min(k, no_items)
        /\ \A a, b \in DOMAIN Cur.ranked : a # b => Cur.ranked[a] # Cur.ranked[b]
        /\ Cur.top_k \subseteq 0..(no_items - 1)
        /\ Cardinality(Cur.top_k) = Min(k, no_items)
        /\ k > no_items =>
              /\ precisions[Len(precisions)].den = k
              /\ precisions[Len(precisions)].num <= no_items

\* k = 2 on a single item: a list of one item, precision over 2
C27_Witness ==
    /\ Passed
    /\ k = 2
    /\ no_items = 1
    /\ Cur.ranked = <<0>>
    /\ precisions[Len(precisions)].den = 2

\* C28: in the pass of user u exactly the items of the training rows of u are
\* masked: every other item keeps its score, an item that only other users
\* have training rows for included, and nothing is masked for a user without
\* training rows.
C28_OnlyOwnRowsMasked ==
    Passed =>
        /\ DOMAIN Cur.predictions = DOMAIN Cur.scores
        /\ \A i \in DOMAIN Cur.predictions :
              Cur.predictions[i] =
                  IF <<Cur.user_id, i>> \in train_ratings THEN NegInf ELSE Cur.scores[i]
        /\ (\A r \in train_ratings : r[1] # Cur.user_id) => Cur.predictions = Cur.scores

\* an item that only the other user has a training row for is the top-1 of
\* this user, who has a training row for another item
C28_Witness ==
    /\ Passed
    /\ k = 1
    /\ Cur.train_pids # {}
    /\ \E r \in train_ratings :
          /\ r[1] # Cur.user_id
          /\ r[2] \notin Cur.train_pids
          /\ Cur.top_k = {r[2]}
          /\ Cur.predictions[r[2]] = Cur.scores[r[2]]
          /\ Cur.scores[r[2]] > 0

\* C29: for the masked scores of a pass and every ranking argsort can return
\* for them, the top-k1 set is a subset of the top-k2 set whenever
\* 1 <= k1 <= k2, and the number of hits for k1 is at most that for k2; the
\* top-k of the pass is one of these sets.
KRange == 1..(Max(k, no_items) + 1)

C29_TopKGrowsWithK ==
    Passed =>
        LET orders == ArgSorts(Negate(Cur.predictions))
        IN /\ \E order \in orders :
                 Cur.ranked = Slice(order, k) /\ Cur.top_k = TopK(order, k)
           /\ \A order \in orders :
                 \A k2 \in KRange :
                     \A k1 \in 1..k2 :
                         /\ TopK(order, k1) \subseteq TopK(order, k2)
                         /\ Precision(TopK(order, k1), Cur.test_pids, k1).num
                               <= Precision(TopK(order, k2), Cur.test_pids, k2).num

\* a pass with k = 2 whose second rank is a hit that the top-1 does not have
C29_Witness ==
    /\ Passed
    /\ k = 2
    /\ Len(Cur.ranked) = 2
    /\ Cur.ranked[1] \notin Cur.test_pids
    /\ Cur.ranked[2] \in Cur.test_pids
    /\ TopK(Cur.ranked, 1) \subseteq Cur.top_k
    /\ precisions[Len(precisions)].num = 1

====
